---- MODULE Spec2Model ----
(***************************************************************************)
(* Model of createcomponent.py: the interactive helper that creates the    *)
(* three files of a React component (Name.tsx, Name.module.css, index.ts)  *)
(* under src/components or src/pages.                                      *)
(*                                                                         *)
(* Strings are sequences of one-character strings, so that split, strip,   *)
(* lower, slicing and pathlib's parsing are computed as Python computes    *)
(* them.  File contents are sequences of tokens: single characters (the    *)
(* element name, whitespace) and literal chunks of the templates; every    *)
(* chunk starts and ends with a non-blank character.                       *)
(*                                                                         *)
(* The filesystem is a function from resolved absolute paths (sequences of *)
(* components) to nodes; there are no symbolic links.                      *)
(***************************************************************************)
EXTENDS Integers, Sequences, FiniteSets, TLC

\* Longest line the user types at the path/name prompt.
MaxLen == 3

\* Number of times the program is started in one behaviour.
MaxRuns == 2

\* Characters of the lines the user types at the path/name prompt; a line may
\* also be typed with blanks around it.
Alphabet == {"a", "/", "."}

Whitespace == {" ", "\t", "\n"}

----------------------------------------------------------------------------
(* Python str operations *)

IsSpace(c) == c \in Whitespace

RECURSIVE LStrip(_)
LStrip(s) ==
    IF s = <<>> THEN s
    ELSE IF IsSpace(Head(s)) THEN LStrip(Tail(s)) ELSE s

RECURSIVE RStrip(_)
RStrip(s) ==
    IF s = <<>> THEN s
    ELSE IF IsSpace(s[Len(s)]) THEN RStrip(SubSeq(s, 1, Len(s) - 1)) ELSE s

\* str.strip()
Strip(s) == RStrip(LStrip(s))

LowerChar(c) ==
    CASE c = "C" -> "c"
      [] c = "P" -> "p"
      [] c = "Y" -> "y"
      [] c = "N" -> "n"
      [] OTHER -> c

\* str.lower()
Lower(s) == [i \in DOMAIN s |-> LowerChar(s[i])]

\* str.split(sep): always at least one segment, empty segments kept
RECURSIVE Split(_, _)
Split(s, sep) ==
    IF \A i \in DOMAIN s : s[i] # sep THEN << s >>
    ELSE LET i == CHOOSE k \in DOMAIN s :
                    s[k] = sep /\ \A j \in 1..(k - 1) : s[j] # sep
         IN  << SubSeq(s, 1, i - 1) >> \o Split(SubSeq(s, i + 1, Len(s)), sep)

\* sep.join(list)
RECURSIVE Join(_, _)
Join(list, sep) ==
    IF list = <<>> THEN <<>>
    ELSE IF Len(list) = 1 THEN list[1]
    ELSE list[1] \o << sep >> \o Join(Tail(list), sep)

\* s[start:] with a 0-based start
SliceFrom(s, start) ==
    IF start >= Len(s) THEN <<>> ELSE SubSeq(s, start + 1, Len(s))

----------------------------------------------------------------------------
(* pathlib (PurePosixPath, Python 3.10).  A path is [root, parts]: root is *)
(* "", "/" or "//", parts are the components after the root.               *)

\* _PosixFlavour.splitroot: exactly two leading slashes are kept as "//"
SplitRoot(part) ==
    LET stripped == IF part = <<>> \/ Head(part) # "/" THEN part
                    ELSE LET n == CHOOSE k \in 0..Len(part) :
                                    /\ \A j \in 1..k : part[j] = "/"
                                    /\ (k < Len(part) => part[k + 1] # "/")
                         IN  SliceFrom(part, n)
        slashes == Len(part) - Len(stripped)
    IN  [root |-> IF slashes = 0 THEN "" ELSE IF slashes = 2 THEN "//" ELSE "/",
         rel  |-> stripped]

\* _Flavour.parse_parts for one string: empty and "." components are dropped
ParseParts(s) ==
    LET sr == SplitRoot(s)
        segs == Split(sr.rel, "/")
    IN  [root  |-> sr.root,
         parts |-> SelectSeq(segs, LAMBDA x : x # <<>> /\ x # << "." >>)]

\* PurePath.__truediv__ / join_parsed_parts: a rooted right operand replaces
\* the left one
JoinPath(path, s) ==
    LET p2 == ParseParts(s)
    IN  IF p2.root # "" THEN p2
        ELSE [root |-> path.root, parts |-> path.parts \o p2.parts]

\* PurePath.parent
Parent(path) ==
    IF path.parts = <<>> THEN path
    ELSE [path EXCEPT !.parts = SubSeq(path.parts, 1, Len(path.parts) - 1)]

\* PurePath.__str__
Str(path) ==
    IF path.root = "" /\ path.parts = <<>> THEN << "." >>
    ELSE (IF path.root = "//" THEN << "/", "/" >>
          ELSE IF path.root = "/" THEN << "/" >> ELSE <<>>)
         \o Join(path.parts, "/")

\* The components of an absolute path with ".." collapsed and "//" folded to
\* "/": os.path.realpath without symbolic links, and the node the kernel
\* reaches for the path.
RECURSIVE Collapse(_, _)
Collapse(done, rest) ==
    IF rest = <<>> THEN done
    ELSE IF Head(rest) = << ".", "." >>
         THEN Collapse(IF done = <<>> THEN done
                       ELSE SubSeq(done, 1, Len(done) - 1), Tail(rest))
         ELSE Collapse(Append(done, Head(rest)), Tail(rest))

Real(path) == Collapse(<<>>, path.parts)

\* Path.resolve()
Resolve(path) == [root |-> "/", parts |-> Real(path)]

----------------------------------------------------------------------------
(* The filesystem: a function from the real path of a node (the sequence   *)
(* of its components below "/") to the node.  Every operation returns      *)
(* [ok, fs]: ok = FALSE stands for the OSError the call raises.            *)

DirNode == [kind |-> "dir", content |-> <<>>]

FileNode(data) == [kind |-> "file", content |-> data]

Exists(f, p) == p \in DOMAIN f

IsDir(f, p) == Exists(f, p) /\ f[p].kind = "dir"

IsFile(f, p) == Exists(f, p) /\ f[p].kind = "file"

Put(f, p, node) == (p :> node) @@ f

\* Path.mkdir(parents=True, exist_ok=True): the prefixes of the path are
\* walked from the root; a missing one is created, a regular file on the
\* way raises (NotADirectoryError or FileExistsError) and keeps what was
\* created before it.
RECURSIVE MkdirWalk(_, _, _)
MkdirWalk(f, path, k) ==
    IF k > Len(path.parts) THEN [ok |-> TRUE, fs |-> f]
    ELSE LET p == Real([path EXCEPT !.parts = SubSeq(path.parts, 1, k)])
         IN  IF IsFile(f, p) THEN [ok |-> FALSE, fs |-> f]
             ELSE MkdirWalk(IF Exists(f, p) THEN f ELSE Put(f, p, DirNode),
                            path, k + 1)

Mkdir(f, path) == MkdirWalk(f, path, 1)

\* Path.touch(exist_ok=True): utime on an existing node, else an empty file
Touch(f, path) ==
    LET p == Real(path)
    IN  IF Exists(f, p) THEN [ok |-> TRUE, fs |-> f]
        ELSE IF IsDir(f, Real(Parent(path)))
             THEN [ok |-> TRUE, fs |-> Put(f, p, FileNode(<<>>))]
             ELSE [ok |-> FALSE, fs |-> f]

\* Path.write_text(data): open(mode="w") truncates or creates
WriteText(f, path, data) ==
    LET p == Real(path)
    IN  IF IsDir(f, p) \/ ~IsDir(f, Real(Parent(path)))
        THEN [ok |-> FALSE, fs |-> f]
        ELSE [ok |-> TRUE, fs |-> Put(f, p, FileNode(data))]

\* Path.read_text(): [ok, data]
ReadText(f, path) ==
    LET p == Real(path)
    IN  IF IsFile(f, p) THEN [ok |-> TRUE, data |-> f[p].content]
        ELSE [ok |-> FALSE, data |-> <<>>]

----------------------------------------------------------------------------
(* Program constants *)

\* The directory of the script, Path(__file__).parent
SCRIPT_DIR == [root |-> "/", parts |-> << << "p" >> >>]

SRC_DIR == JoinPath(SCRIPT_DIR, << "s", "r", "c" >>)

Components == << "c", "o", "m", "p", "o", "n", "e", "n", "t", "s" >>

Pages == << "p", "a", "g", "e", "s" >>

BaseFolder == {Components, Pages}

TsxSuffix == << ".", "t", "s", "x" >>

CssSuffix == << ".", "m", "o", "d", "u", "l", "e", ".", "c", "s", "s" >>

IndexName == << "i", "n", "d", "e", "x", ".", "t", "s" >>

----------------------------------------------------------------------------
(* AskParams._parse_as_element *)

\* Mutant: the one-segment element gets no folder of its own
ElementFlat(element_str, base_folder) ==
    LET element_as_list == Split(element_str, "/")
        element_name == element_as_list[Len(element_as_list)]
        relative_path ==
            IF Len(element_as_list) > 1
            THEN Join(SubSeq(element_as_list, 1, Len(element_as_list) - 1), "/")
            ELSE <<>>
    IN  [full_path |-> JoinPath(JoinPath(SRC_DIR, base_folder), relative_path),
         name      |-> element_name]

ParseAsElement(element_str, base_folder) ==
    LET element_as_list == Split(element_str, "/")
        element_name == element_as_list[Len(element_as_list)]
        relative_path ==
            IF Len(element_as_list) > 1
            THEN Join(SubSeq(element_as_list, 1, Len(element_as_list) - 1), "/")
            ELSE element_name
    IN  [full_path |-> JoinPath(JoinPath(SRC_DIR, base_folder), relative_path),
         name      |-> element_name]

----------------------------------------------------------------------------
(* The file creators *)

TSXFilename(element) == JoinPath(element.full_path, element.name \o TsxSuffix)

CSSFilename(element) == JoinPath(element.full_path, element.name \o CssSuffix)

IndexFilename(element) == JoinPath(element.full_path, IndexName)

\* get_absolute_filename of the creator of the given kind
AbsoluteFilename(kind, element) ==
    CASE kind = "tsx"   -> TSXFilename(element)
      [] kind = "css"   -> CSSFilename(element)
      [] kind = "index" -> IndexFilename(element)

\* FileCreator.get_relative_filename: the resolved name with the resolved
\* SRC_DIR and one more character cut off its front
RelativeFilename(kind, element) ==
    SliceFrom(Str(Resolve(AbsoluteFilename(kind, element))),
              1 + Len(Str(Resolve(SRC_DIR))))

\* The f-string of TSXFileCreator._write_file_contents, stripped
TSXTemplate(name) ==
    Strip(<< "import styles from \"./" >> \o name \o << ".module.css\"" >>
          \o << "\n", "\n", "interface", " " >> \o name \o << "Props {" >>
          \o << "\n", " ", " ", "\n", "}", "\n", "\n", "const", " " >>
          \o name \o << " ", "= ({}:", " " >> \o name \o << "Props) => (" >>
          \o << "\n", " ", " ", "<div>" >> \o name \o << "</div>", "\n", ")" >>
          \o << "\n", "\n", "export default", " " >> \o name
          \o << "\n", " ", " ", " ", " ", " ", " ", " ", " " >>)

\* The f-string of IndexFileCreator._write_file_contents
IndexTemplate(name) == << "export {default} from \"./" >> \o name \o << "\";" >>

\* FileCreator._create_empty_file
CreateEmptyFile(f, file) ==
    LET made == Mkdir(f, Parent(file))
    IN  IF made.ok THEN Touch(made.fs, file) ELSE made

\* Mutant: the script file is written only when it is blank, as index.ts is
TSXWritesIfBlank(f, element) ==
    LET current == ReadText(f, TSXFilename(element))
    IN  IF ~current.ok THEN [ok |-> FALSE, fs |-> f]
        ELSE IF Strip(current.data) # <<>> THEN [ok |-> TRUE, fs |-> f]
             ELSE WriteText(f, TSXFilename(element), TSXTemplate(element.name))

\* Mutant: the script file is opened for appending
TSXAppends(f, element) ==
    LET current == ReadText(f, TSXFilename(element))
    IN  IF ~current.ok THEN [ok |-> FALSE, fs |-> f]
        ELSE WriteText(f, TSXFilename(element),
                       current.data \o TSXTemplate(element.name))

\* TSXFileCreator._write_file_contents
TSXWriteFileContents(f, element) ==
    WriteText(f, TSXFilename(element), TSXTemplate(element.name))

\* Mutant: the style file is written with the empty string
CSSTruncates(f, element) == WriteText(f, CSSFilename(element), <<>>)

\* CSSFileCreator._write_file_contents
CSSWriteFileContents(f, element) == [ok |-> TRUE, fs |-> f]

\* Mutant: index.ts is written without looking at what it holds
IndexAlwaysWrites(f, element) ==
    WriteText(f, IndexFilename(element), IndexTemplate(element.name))

\* IndexFileCreator._write_file_contents
IndexWriteFileContents(f, element) ==
    LET current_file_contents == ReadText(f, IndexFilename(element))
    IN  IF ~current_file_contents.ok THEN [ok |-> FALSE, fs |-> f]
        ELSE IF Strip(current_file_contents.data) # <<>>
             THEN [ok |-> TRUE, fs |-> f]
             ELSE WriteText(f, IndexFilename(element),
                            IndexTemplate(element.name))

WriteFileContents(kind, f, element) ==
    CASE kind = "tsx"   -> TSXWriteFileContents(f, element)
      [] kind = "css"   -> CSSWriteFileContents(f, element)
      [] kind = "index" -> IndexWriteFileContents(f, element)

\* FileCreator.create
Create(kind, f, element) ==
    LET made == CreateEmptyFile(f, AbsoluteFilename(kind, element))
    IN  IF made.ok THEN WriteFileContents(kind, made.fs, element) ELSE made

\* Mutant: the style creator is registered first
CreatorsStyleFirst == << "css", "tsx", "index" >>

\* The creators main() registers, in order
RegisteredCreators == << "tsx", "css", "index" >>

----------------------------------------------------------------------------
(* What the user types *)

Cores == UNION {[1..n -> Alphabet] : n \in 0..MaxLen}

\* Lines typed at the path/name prompt
Lines == Cores \cup {<< " " >> \o c \o << " ", "\t" >> : c \in Cores}

\* Lines typed at the path/name prompt when the program is run repeatedly:
\* a, a/a, a/., a/, /a, ., the empty line and //a
SeedLines ==
    {<< "a" >>, << "a", "/", "a" >>, << "a", "/", "." >>, << "a", "/" >>,
     << "/", "a" >>, << "." >>, <<>>, << "/", "/", "a" >>}

\* Lines typed at the category prompt
CategoryLines ==
    {<< "c" >>, << "p" >>, << " ", "C", " " >>, << "P", "\t" >>,
     <<>>, << "x" >>, << "c", "p" >>}

\* Lines typed at the confirmation prompt
OkLines ==
    {<< "y" >>, <<>>, << " ", "Y" >>, << " ", " " >>, << "n" >>,
     << "N", " " >>, << "y", "e", "s" >>, << "n", "o" >>, << "x" >>}

----------------------------------------------------------------------------
(* Filesystems the program can be started on.  The script's directory      *)
(* exists.  At the places a line leads to, under both base folders, there  *)
(* is nothing, or a regular file where the element's directory would be,   *)
(* or the directory with any of the three files in it.                     *)

UserText == << "// edited by hand" >>

BlankText == << " ", "\n" >>

OtherExport == IndexTemplate(<< "O", "t", "h", "e", "r" >>)

BareFS ==
    Mkdir(Put(<<>> :> DirNode, <<>>, DirNode), SCRIPT_DIR).fs

TsxOptions == {"absent", "empty", "text", "dir"}

CssOptions == {"absent", "empty", "text"}

IndexOptions == {"absent", "blank", "text", "dir"}

Configs ==
    {[dir |-> "bare", tsx |-> "absent", css |-> "absent", index |-> "absent"],
     [dir |-> "blocked", tsx |-> "absent", css |-> "absent", index |-> "absent"]}
    \cup [dir : {"full"}, tsx : TsxOptions, css : CssOptions, index : IndexOptions]

OptionNode(option) ==
    CASE option = "dir"   -> DirNode
      [] option = "empty" -> FileNode(<<>>)
      [] option = "blank" -> FileNode(BlankText)
      [] option = "text" -> FileNode(UserText)

PlaceNode(f, path, option) ==
    IF option = "absent" THEN f ELSE Put(f, Real(path), OptionNode(option))

Place(f, el, cfg) ==
    LET d == el.full_path
        plain == \A i \in DOMAIN d.parts : d.parts[i] # << ".", "." >>
    IN  CASE cfg.dir = "bare" -> f
          [] cfg.dir = "blocked" ->
                IF plain /\ ~Exists(f, Real(d)) /\ Mkdir(f, Parent(d)).ok
                THEN Put(Mkdir(f, Parent(d)).fs, Real(d), FileNode(<<>>))
                ELSE f
          [] cfg.dir = "full" ->
                IF ~Mkdir(f, d).ok THEN f
                ELSE LET f1 == PlaceNode(Mkdir(f, d).fs, TSXFilename(el), cfg.tsx)
                         f2 == PlaceNode(f1, CSSFilename(el), cfg.css)
                     IN  IF cfg.index = "text"
                         THEN Put(f2, Real(IndexFilename(el)), FileNode(OtherExport))
                         ELSE PlaceNode(f2, IndexFilename(el), cfg.index)

InitialFS(line, cfg) ==
    Place(Place(BareFS, ParseAsElement(Strip(line), Components), cfg),
          ParseAsElement(Strip(line), Pages), cfg)

----------------------------------------------------------------------------
(* The program *)

VARIABLES
    pc,           \* where main() is: a prompt, the creators, or how it ended
    base_folder,  \* what _ask_base_folder returned
    element_str,  \* what _ask_element returned
    element,      \* the Element
    filenames,    \* what get_relative_filenames returned
    cursor,       \* index of the next creator in ElementFilesCreator.create
    created,      \* the creators whose create() has returned, in order
    stderr,       \* what the process wrote to its standard error
    exit_code,    \* the exit status of the process, -1 while it runs
    stdin,        \* the line the user types at the path/name prompt
    fs,           \* the filesystem
    fs0,          \* the filesystem when the process started
    runs,         \* how many times the program was started
    prev,         \* the previous run: its inputs, and whether nothing
                  \* touched the files between its end and this start
    edited        \* the user edited a file since the last run ended

vars ==
    << pc, base_folder, element_str, element, filenames, cursor, created,
       stderr, exit_code, stdin, fs, fs0, runs, prev, edited >>

NoPath == [root |-> "", parts |-> <<>>]

NoElement == [full_path |-> NoPath, name |-> <<>>]

NoPrev == [valid |-> FALSE, clean |-> FALSE, base_folder |-> <<>>,
           element_str |-> <<>>]

Prompts == {"ask_base", "ask_element", "ask_ok"}

\* The state when the program is first started, the user about to type one
\* of the given lines at the path/name prompt
Start(lines) ==
    /\ pc = "ask_base"
    /\ base_folder = <<>>
    /\ element_str = <<>>
    /\ element = NoElement
    /\ filenames = <<>>
    /\ cursor = 0
    /\ created = <<>>
    /\ stderr = ""
    /\ exit_code = -1
    /\ stdin \in lines
    /\ fs \in {InitialFS(stdin, cfg) : cfg \in Configs}
    /\ fs0 = fs
    /\ runs = 1
    /\ prev = NoPrev
    /\ edited = FALSE

Init == Start(Lines)

\* AskParams._ask_base_folder: one pass of its loop (the prompts and the
\* "try again" message go to standard output, which is not part of the state)
BaseFolderAnswer(line) ==
    LET answer == Lower(Strip(line))
    IN  CASE answer = << "c" >> -> Components
          [] answer = << "p" >> -> Pages
          [] OTHER -> <<>>

AskBaseFolder ==
    /\ pc = "ask_base"
    /\ \E line \in CategoryLines :
         IF BaseFolderAnswer(line) # <<>>
         THEN /\ base_folder' = BaseFolderAnswer(line)
              /\ pc' = "ask_element"
         ELSE UNCHANGED << pc, base_folder >>
    /\ UNCHANGED << stderr, element_str, element, filenames, cursor, created,
                    exit_code, stdin, fs, fs0, runs, prev, edited >>

\* Mutant: the empty files are made when the creators are registered, before
\* the confirmation
AskElementTouching ==
    /\ pc = "ask_element"
    /\ element_str' = Strip(stdin)
    /\ element' = ParseAsElement(element_str', base_folder)
    /\ filenames' = [i \in DOMAIN RegisteredCreators |->
                        RelativeFilename(RegisteredCreators[i], element')]
    /\ pc' = "ask_ok"
    /\ stdin' = <<>>
    /\ fs' = CreateEmptyFile(fs, TSXFilename(element')).fs
    /\ UNCHANGED << stderr, base_folder, cursor, created, exit_code, fs0,
                    runs, prev, edited >>

\* AskParams._ask_element and _parse_as_element, then main() up to the
\* confirmation prompt: the creators are registered and their relative
\* filenames are shown
AskElement ==
    /\ pc = "ask_element"
    /\ element_str' = Strip(stdin)
    /\ element' = ParseAsElement(element_str', base_folder)
    /\ filenames' = [i \in DOMAIN RegisteredCreators |->
                        RelativeFilename(RegisteredCreators[i], element')]
    /\ pc' = "ask_ok"
    /\ stdin' = <<>>
    /\ UNCHANGED << stderr, base_folder, cursor, created, exit_code, fs, fs0, runs,
                    prev, edited >>

\* AskParams.ask_ok: one pass of its loop
OkAnswer(line) ==
    LET answer == Lower(Strip(line))
    IN  CASE answer = << "y" >> \/ answer = <<>> -> "yes"
          [] answer = << "n" >> -> "no"
          [] OTHER -> "retry"

\* The exit status of exit("...") with a string argument: the string is
\* printed to stderr and the status is 1
CancelExitCode == 1

AskOk ==
    /\ pc = "ask_ok"
    /\ \E line \in OkLines :
         CASE OkAnswer(line) = "yes" ->
                /\ pc' = "create"
                /\ cursor' = 1
                /\ UNCHANGED << stderr, exit_code >>
           [] OkAnswer(line) = "no" ->
                /\ pc' = "cancelled"
                /\ stderr' = "message"
                /\ exit_code' = CancelExitCode
                /\ UNCHANGED cursor
           [] OTHER -> UNCHANGED << pc, cursor, stderr, exit_code >>
    /\ UNCHANGED << base_folder, element_str, element, filenames, created,
                    stdin, fs, fs0, runs, prev, edited >>

\* ElementFilesCreator.create: one pass of its loop.  An OSError is not
\* caught: the traceback is printed and the exit status is 1.
CreateNext ==
    /\ pc = "create"
    /\ cursor <= Len(RegisteredCreators)
    /\ LET r == Create(RegisteredCreators[cursor], fs, element)
       IN  /\ fs' = r.fs
           /\ IF r.ok
              THEN /\ cursor' = cursor + 1
                   /\ created' = Append(created, RegisteredCreators[cursor])
                   /\ UNCHANGED << pc, stderr, exit_code >>
              ELSE /\ pc' = "crashed"
                   /\ stderr' = "traceback"
                   /\ exit_code' = 1
                   /\ UNCHANGED << cursor, created >>
    /\ UNCHANGED << base_folder, element_str, element, filenames, stdin, fs0,
                    runs, prev, edited >>

\* main() after the creators: the completion message, then a normal return
Finish ==
    /\ pc = "create"
    /\ cursor > Len(RegisteredCreators)
    /\ pc' = "done"
    /\ exit_code' = 0
    /\ UNCHANGED << stderr, base_folder, element_str, element, filenames,
                    cursor, created, stdin, fs, fs0, runs, prev, edited >>

\* KeyboardInterrupt, caught around main() and passed over
Interrupt ==
    /\ pc \in Prompts \cup {"create"}
    /\ pc' = "interrupted"
    /\ exit_code' = 0
    /\ UNCHANGED << base_folder, element_str, element, filenames, cursor,
                    created, stderr, stdin, fs, fs0, runs, prev, edited >>

\* Between two runs the user edits the script file the run wrote
ManualEdit ==
    /\ pc = "done"
    /\ runs < MaxRuns
    /\ ~edited
    /\ edited' = TRUE
    /\ fs' = Put(fs, Real(TSXFilename(element)), FileNode(UserText))
    /\ UNCHANGED << pc, base_folder, element_str, element, filenames, cursor,
                    created, stderr, exit_code, stdin, fs0, runs, prev >>

\* The program is started again after a run that went through the
\* confirmation, for an element of the same folder
Rerun ==
    /\ pc \in {"done", "crashed"}
    /\ runs < MaxRuns
    /\ \E line \in SeedLines :
         /\ ParseAsElement(line, base_folder).full_path = element.full_path
         /\ stdin' = line
    /\ pc' = "ask_base"
    /\ base_folder' = <<>>
    /\ element_str' = <<>>
    /\ element' = NoElement
    /\ filenames' = <<>>
    /\ cursor' = 0
    /\ created' = <<>>
    /\ stderr' = ""
    /\ exit_code' = -1
    /\ fs0' = fs
    /\ runs' = runs + 1
    /\ prev' = [valid |-> TRUE, clean |-> ~edited,
                base_folder |-> base_folder, element_str |-> element_str]
    /\ edited' = FALSE
    /\ UNCHANGED fs

\* One run of the program
Next ==
    \/ AskBaseFolder
    \/ AskElement
    \/ AskOk
    \/ CreateNext
    \/ Finish
    \/ Interrupt

Spec == Init /\ [][Next]_vars

\* Runs of the program one after the other, with the user's edits between
InitRerun == Start(SeedLines)

NextRerun ==
    \/ Next
    \/ ManualEdit
    \/ Rerun

SpecRerun == InitRerun /\ [][NextRerun]_vars

----------------------------------------------------------------------------
(* Properties *)

\* The node at a real path, "absent" when there is none
NodeAt(f, p) ==
    IF Exists(f, p) THEN f[p] ELSE [kind |-> "absent", content |-> <<>>]

\* Path(s): the path pathlib makes of one string
PathOf(s) == ParseParts(s)

\* The string <root>/<B>/<rest>
UnderBase(b, rest) == Str(SRC_DIR) \o << "/" >> \o b \o << "/" >> \o rest

\* _parse_as_element has returned
Parsed == element # NoElement

Segments == Split(element_str, "/")

LastSegment == Segments[Len(Segments)]

\* P of an input P/N: every segment but the last, joined by "/"
Prefix == Join(SubSeq(Segments, 1, Len(Segments) - 1), "/")

TsxPath == Real(TSXFilename(element))

CssPath == Real(CSSFilename(element))

IndexPath == Real(IndexFilename(element))

Blank(node) ==
    \/ node.kind = "absent"
    \/ node.kind = "file" /\ Strip(node.content) = <<>>

PrevElement == ParseAsElement(prev.element_str, prev.base_folder)

\* This run repeats the previous one and nothing touched the files between
SameRunAgain ==
    /\ prev.valid
    /\ prev.clean
    /\ prev.base_folder = base_folder
    /\ prev.element_str = element_str

\* C1: a run the user answers "no" to at the confirmation ends with the
\* filesystem (directories, files and contents) as it was when it started.
C1_CancelChangesNothing == pc = "cancelled" => fs = fs0

C1_Witness ==
    /\ pc = "cancelled"
    /\ element.name = << "a" >>
    /\ IsFile(fs0, TsxPath)
    /\ fs0[TsxPath].content = UserText

\* C2: once the index creator has returned, index.ts holds exactly
\* export {default} from "./<name>"; if it was absent, empty or
\* whitespace-only when the run started (and that is a change), and holds
\* what it held at the start if it had any non-blank text.
C2_IndexWrittenIffBlank ==
    (Len(created) = 3 /\ ~edited) =>
        LET old == NodeAt(fs0, IndexPath)
            export == << "export {default} from \"./" >> \o element.name
                      \o << "\";" >>
        IN  IF Blank(old)
            THEN NodeAt(fs, IndexPath) = FileNode(export)
                 /\ NodeAt(fs, IndexPath) # old
            ELSE NodeAt(fs, IndexPath) = old

\* A second run for another name in the folder of the first leaves the
\* export of the first in index.ts.
C2_Witness ==
    /\ pc = "done"
    /\ prev.valid
    /\ PrevElement.full_path = element.full_path
    /\ PrevElement.name # element.name
    /\ NodeAt(fs0, IndexPath) = FileNode(IndexTemplate(PrevElement.name))
    /\ NodeAt(fs, IndexPath) = NodeAt(fs0, IndexPath)

\* C3: once the script creator has returned, and until the user edits the
\* file, <name>.tsx holds the template rendered for the name, whatever was
\* at its place when the run started.
C3_ScriptAlwaysOverwritten ==
    (Len(created) >= 1 /\ ~edited) =>
        NodeAt(fs, TsxPath) = FileNode(TSXTemplate(element.name))

\* The second of two runs for the same element, the user having edited the
\* script file between them.
C3_Witness ==
    /\ pc = "done"
    /\ prev.valid
    /\ ~prev.clean
    /\ prev.base_folder = base_folder
    /\ PrevElement = element
    /\ NodeAt(fs0, TsxPath) = FileNode(UserText)
    /\ NodeAt(fs, TsxPath) = FileNode(TSXTemplate(element.name))

\* C4: once the style creator has returned, <name>.module.css is an empty
\* file if there was nothing at its place when the run started, and is what
\* it was at the start otherwise.
C4_StyleTouchOnly ==
    Len(created) >= 2 =>
        LET old == NodeAt(fs0, CssPath)
        IN  IF old.kind = "absent"
            THEN NodeAt(fs, CssPath) = FileNode(<<>>)
            ELSE NodeAt(fs, CssPath) = old

\* The second of two runs with the same input: the style file the first one
\* created is still empty.
C4_Witness ==
    /\ pc = "done"
    /\ SameRunAgain
    /\ NodeAt(fs0, CssPath) = FileNode(<<>>)
    /\ NodeAt(fs, CssPath) = FileNode(<<>>)

\* C5: for an input P/N of more than one segment the element's directory is
\* <root>/<B>/<P>, its name is N, and the three files are N.tsx,
\* N.module.css and index.ts in that directory.
C5_MultiSegmentLayout ==
    (Parsed /\ Len(Segments) > 1) =>
        /\ element.name = LastSegment
        /\ element.full_path = PathOf(UnderBase(base_folder, Prefix))
        /\ TSXFilename(element) =
             PathOf(UnderBase(base_folder,
                              Prefix \o << "/" >> \o LastSegment \o TsxSuffix))
        /\ CSSFilename(element) =
             PathOf(UnderBase(base_folder,
                              Prefix \o << "/" >> \o LastSegment \o CssSuffix))
        /\ IndexFilename(element) =
             PathOf(UnderBase(base_folder, Prefix \o << "/" >> \o IndexName))

\* A name is valid when it is not empty and holds no "/"
ValidName(n) == n # <<>> /\ \A i \in DOMAIN n : n[i] # "/"

ExpectedFiles ==
    {Real(PathOf(UnderBase(base_folder,
                           element_str \o << "/" >> \o element_str \o TsxSuffix))),
     Real(PathOf(UnderBase(base_folder,
                           element_str \o << "/" >> \o element_str \o CssSuffix))),
     Real(PathOf(UnderBase(base_folder,
                           element_str \o << "/" >> \o IndexName)))}

\* C6: a confirmed run for a valid one-segment name N, started where
\* <root>/<B>/<N> does not exist, does not fail, and when it is done the
\* files that are new are exactly the three distinct files N.tsx,
\* N.module.css and index.ts of <root>/<B>/<N>, and everything that
\* existed at the start is as it was.
C6_ExactlyThreeFiles ==
    (/\ cursor >= 1
     /\ ValidName(element_str)
     /\ ~Exists(fs0, Real(PathOf(UnderBase(base_folder, element_str))))) =>
        /\ pc # "crashed"
        /\ \A p \in DOMAIN fs0 : NodeAt(fs, p) = fs0[p]
        /\ pc = "done" =>
             /\ Cardinality(ExpectedFiles) = 3
             /\ {p \in DOMAIN fs : IsFile(fs, p) /\ ~Exists(fs0, p)}
                  = ExpectedFiles

C6_Witness ==
    /\ pc = "done"
    /\ element_str = << "a" >>
    /\ base_folder = Pages
    /\ ~Exists(fs0, Real(PathOf(UnderBase(base_folder, element_str))))
    /\ \A p \in ExpectedFiles : IsFile(fs, p)

\* C7: the exit status is 0 when the run completes and when the user
\* answers "no" at the confirmation.
C7_ExitCodeZero == pc \in {"done", "cancelled"} => exit_code = 0

\* full_path lies under <root>/components or <root>/pages
UnderBaseFolder(path) ==
    \E b \in BaseFolder :
        LET base == Real(JoinPath(SRC_DIR, b))
        IN  /\ path.root = "/"
            /\ Len(Real(path)) >= Len(base)
            /\ SubSeq(Real(path), 1, Len(base)) = base

\* C8: every Element the parser produces has a non-empty name without "/"
\* and a full_path under <root>/components or <root>/pages.
C8_ElementInvariant ==
    Parsed =>
        /\ ValidName(element.name)
        /\ UnderBaseFolder(element.full_path)

CreatorOrder == << "tsx", "css", "index" >>

\* The files of the creators from the i-th on are as when the run started
UntouchedFrom(i) ==
    \A j \in i..Len(CreatorOrder) :
        LET p == Real(AbsoluteFilename(CreatorOrder[j], element))
        IN  NodeAt(fs, p) = NodeAt(fs0, p)

\* C9: the category is asked before the path/name, the path/name before the
\* confirmation, and nothing is written until the confirmation has accepted
\* a yes: at every prompt, and after an interrupt or a "no" at a prompt, the
\* filesystem is as it was when the run started.  After the yes the creators
\* return in the order script, style, index, and a creator's file is
\* untouched while the creators before it have not returned.
C9_PromptsThenWritesInOrder ==
    /\ pc = "ask_base" => base_folder = <<>> /\ element = NoElement
    /\ pc = "ask_element" => base_folder \in BaseFolder /\ element = NoElement
    /\ pc = "ask_ok" => base_folder \in BaseFolder /\ element # NoElement
    /\ pc \in Prompts => cursor = 0
    /\ cursor = 0 => fs = fs0 /\ created = <<>>
    /\ cursor >= 1 =>
         /\ Parsed
         /\ Len(created) <= Len(CreatorOrder)
         /\ created = SubSeq(CreatorOrder, 1, Len(created))
         /\ pc = "create" => Len(created) = cursor - 1 /\ UntouchedFrom(cursor)
         /\ pc \in {"crashed", "interrupted"} => UntouchedFrom(Len(created) + 2)

C9_Witness ==
    /\ pc = "create"
    /\ created = << "tsx", "css" >>
    /\ NodeAt(fs0, TsxPath).kind = "absent"
    /\ IsFile(fs, TsxPath)
    /\ NodeAt(fs, IndexPath).kind = "absent"

\* C10: a run that repeats the previous confirmed run, nothing having
\* touched the files between the two, leaves the filesystem as the previous
\* run left it (when it ends, before the user edits anything again).
C10_SecondRunChangesNothing ==
    (pc \in {"done", "crashed"} /\ ~edited /\ SameRunAgain) => fs = fs0

C10_Witness ==
    /\ pc = "done"
    /\ SameRunAgain
    /\ element.name = << "a" >>
    /\ fs = fs0
    /\ NodeAt(fs, TsxPath) = FileNode(TSXTemplate(element.name))
    /\ NodeAt(fs, IndexPath) = FileNode(IndexTemplate(element.name))

====
